---- MODULE Spec2Model ----
(***************************************************************************)
(* Model of the install / uninstall / quota bookkeeping and notification   *)
(* logic of the MultiGames launcher (src/Menu.py): class GameLauncher and  *)
(* Menu.draw_notification, together with the installed.json store.         *)
(*                                                                         *)
(* A JSON text is a sequence of tokens.  A Python value read from or       *)
(* written to the store is a record [t, v]: t is the Python type ("list",  *)
(* "int", "str") and v the elements of the list, the digits of the int or  *)
(* the characters of the str.  A list element that is a member of NumToks  *)
(* is a number, every other element is a string.                           *)
(***************************************************************************)
EXTENDS Integers, Sequences, FiniteSets, TLC

VARIABLES store, installed, notification, exc, last

vars == <<store, installed, notification, exc, last>>

\* ------------------------------------------------------------ constants
STORAGE_LIMIT == 10

TTL == 120

\* The catalog built by load_game_list from the games directory: the three
\* plugins of the scenario a, b, c with sizes chosen so that one pair fills
\* the quota exactly (b + c) and one pair exceeds it (a + b).
games ==
  [a |-> [name |-> "Alpha", size |-> 4],
   b |-> [name |-> "Beta", size |-> 7],
   c |-> [name |-> "Gamma", size |-> 3]]

GameIds == DOMAIN games

\* An id that no plugin of the catalog has (a game removed since it was
\* installed).
OrphanIds == {"z"}

ArgIds == GameIds \cup OrphanIds

NumToks == {"7"}

StrToks == ArgIds

BadByte == "0xFF"

\* ------------------------------------------------------------ bounds
MaxFileLen == 2

\* ------------------------------------------------------------ Python values
PyList(v) == [t |-> "list", v |-> v]

PyInt(v) == [t |-> "int", v |-> v]

PyStr(v) == [t |-> "str", v |-> v]

None == [message |-> [text |-> "", name |-> "", n |-> 0], type |-> "none", timer |-> 0]

Ok(val) == [exc |-> "none", val |-> val]

Raised(e, val) == [exc |-> e, val |-> val]

\* ------------------------------------------------------------ JSON
RECURSIVE JoinElems(_)
JoinElems(v) ==
  IF v = <<>> THEN <<>>
  ELSE IF Len(v) = 1 THEN <<v[1]>>
  ELSE <<v[1], ",">> \o JoinElems(Tail(v))

\* json.dump: the text written for a value.
json_dump(val) ==
  IF val.t = "list" THEN <<"[">> \o JoinElems(val.v) \o <<"]">>
  ELSE val.v

IsScalarTok(tok) == tok \in NumToks \cup StrToks

\* The tokens between the brackets form elements separated by commas.
RECURSIVE ElemsWellFormed(_)
ElemsWellFormed(inner) ==
  IF inner = <<>> THEN FALSE
  ELSE IF ~IsScalarTok(inner[1]) THEN FALSE
  ELSE IF Len(inner) = 1 THEN TRUE
  ELSE inner[2] = "," /\ ElemsWellFormed(SubSeq(inner, 3, Len(inner)))

RECURSIVE ParseElems(_)
ParseElems(inner) ==
  IF Len(inner) <= 1 THEN inner
  ELSE <<inner[1]>> \o ParseElems(SubSeq(inner, 3, Len(inner)))

\* json.load: reading the text decodes it (UnicodeDecodeError on a byte that
\* is not text), then the decoder parses one JSON value.
json_load(text) ==
  IF \E i \in 1..Len(text) : text[i] = BadByte
    THEN Raised("UnicodeDecodeError", PyList(<<>>))
  ELSE IF Len(text) = 1 /\ text[1] \in NumToks THEN Ok(PyInt(text))
  ELSE IF Len(text) = 1 /\ text[1] \in StrToks THEN Ok(PyStr(text))
  ELSE IF Len(text) >= 2 /\ text[1] = "[" /\ text[Len(text)] = "]"
    THEN LET inner == SubSeq(text, 2, Len(text) - 1) IN
         IF inner = <<>> THEN Ok(PyList(<<>>))
         ELSE IF ElemsWellFormed(inner) THEN Ok(PyList(ParseElems(inner)))
         ELSE Raised("JSONDecodeError", PyList(<<>>))
  ELSE Raised("JSONDecodeError", PyList(<<>>))

\* GameLauncher.load_installed
load_installed(st) ==
  IF ~st.exists THEN Ok(PyList(<<>>))
  ELSE LET r == json_load(st.text) IN
       IF r.exc = "JSONDecodeError" THEN Ok(PyList(<<>>)) ELSE r

\* GameLauncher.save_installed
save_installed(val) == [exists |-> TRUE, text |-> json_dump(val)]

\* ------------------------------------------------------------ library
\* Contains with the membership test left out
ContainsNever(inst, game_id) ==
  IF inst.t = "int" THEN "raise" ELSE "False"

\* `game_id in self.installed`
Contains(inst, game_id) ==
  IF inst.t = "int" THEN "raise"
  ELSE IF \E i \in 1..Len(inst.v) : inst.v[i] = game_id THEN "True"
  ELSE "False"

RECURSIVE SumSizes(_)
SumSizes(v) ==
  IF v = <<>> THEN Ok(0)
  ELSE IF Head(v) \notin GameIds THEN Raised("KeyError", 0)
  ELSE LET r == SumSizes(Tail(v)) IN
       IF r.exc # "none" THEN r ELSE Ok(games[Head(v)].size + r.val)

\* GameLauncher.get_used_space
get_used_space(inst) ==
  IF inst.t = "int" THEN Raised("TypeError", 0) ELSE SumSizes(inst.v)

\* Fits comparing the new game alone with the limit
FitsAlone(used, required) == ~(required > STORAGE_LIMIT)

Fits(used, required) == ~(used + required > STORAGE_LIMIT)

\* Needed with the free space taken as limit plus used
NeededSignSlip(used, required) == required - (STORAGE_LIMIT + used)

Needed(used, required) == required - (STORAGE_LIMIT - used)

\* Append1 inserting at the front
Prepend(v, game_id) == <<game_id>> \o v

\* list.append
Append1(v, game_id) == Append(v, game_id)

\* list.remove: drops the first occurrence
RECURSIVE RemoveFirst(_, _)
RemoveFirst(v, game_id) ==
  IF v = <<>> THEN <<>>
  ELSE IF Head(v) = game_id THEN Tail(v)
  ELSE <<Head(v)>> \o RemoveFirst(Tail(v), game_id)

Msg(text, name, n) == [text |-> text, name |-> name, n |-> n]

\* GameLauncher.show_notification
show_notification(message, type) ==
  [message |-> message, type |-> type, timer |-> TTL]

Last(op, arg, ret, val) == [op |-> op, arg |-> arg, ret |-> ret, val |-> val]

\* An uncaught exception ends the process; nothing else changes.
Raise(e, op, arg) ==
  /\ exc' = e
  /\ last' = Last(op, arg, "raise", 0)
  /\ UNCHANGED <<store, installed, notification>>

\* ------------------------------------------------------------ operations
\* install_game testing the quota before the membership
install_game_quota_first(game_id) ==
  /\ exc = "none"
  /\ IF game_id \notin GameIds THEN Raise("KeyError", "install", game_id)
     ELSE
       LET required == games[game_id].size
           used == get_used_space(installed)
           m == Contains(installed, game_id)
       IN
       IF used.exc # "none" THEN Raise(used.exc, "install", game_id)
       ELSE IF ~Fits(used.val, required) THEN
         /\ notification' = show_notification(
               Msg("Need {needed}MB more space!", "", Needed(used.val, required)), "error")
         /\ last' = Last("install", game_id, "False", 0)
         /\ UNCHANGED <<store, installed, exc>>
       ELSE IF m = "raise" THEN Raise("TypeError", "install", game_id)
       ELSE IF m = "True" THEN
         /\ notification' = show_notification(Msg("Game already installed!", "", 0), "warning")
         /\ last' = Last("install", game_id, "False", 0)
         /\ UNCHANGED <<store, installed, exc>>
       ELSE IF installed.t # "list" THEN Raise("AttributeError", "install", game_id)
       ELSE
         /\ installed' = PyList(Append1(installed.v, game_id))
         /\ store' = save_installed(installed')
         /\ notification' = show_notification(
               Msg("{name} installed!", games[game_id].name, 0), "success")
         /\ last' = Last("install", game_id, "True", 0)
         /\ UNCHANGED exc

\* GameLauncher.install_game
install_game(game_id) ==
  /\ exc = "none"
  /\ LET m == Contains(installed, game_id) IN
     IF m = "raise" THEN Raise("TypeError", "install", game_id)
     ELSE IF m = "True" THEN
       /\ notification' = show_notification(Msg("Game already installed!", "", 0), "warning")
       /\ last' = Last("install", game_id, "False", 0)
       /\ UNCHANGED <<store, installed, exc>>
     ELSE IF game_id \notin GameIds THEN Raise("KeyError", "install", game_id)
     ELSE
       LET required == games[game_id].size
           used == get_used_space(installed)
       IN
       IF used.exc # "none" THEN Raise(used.exc, "install", game_id)
       ELSE IF ~Fits(used.val, required) THEN
         /\ notification' = show_notification(
               Msg("Need {needed}MB more space!", "", Needed(used.val, required)), "error")
         /\ last' = Last("install", game_id, "False", 0)
         /\ UNCHANGED <<store, installed, exc>>
       ELSE IF installed.t # "list" THEN Raise("AttributeError", "install", game_id)
       ELSE
         /\ installed' = PyList(Append1(installed.v, game_id))
         /\ store' = save_installed(installed')
         /\ notification' = show_notification(
               Msg("{name} installed!", games[game_id].name, 0), "success")
         /\ last' = Last("install", game_id, "True", 0)
         /\ UNCHANGED exc

\* uninstall_game without the save_installed call
uninstall_game_no_save(game_id) ==
  /\ exc = "none"
  /\ LET m == Contains(installed, game_id) IN
     IF m = "raise" THEN Raise("TypeError", "uninstall", game_id)
     ELSE IF m = "True" THEN
       IF installed.t # "list" THEN Raise("AttributeError", "uninstall", game_id)
       ELSE
         /\ installed' = PyList(RemoveFirst(installed.v, game_id))
         /\ UNCHANGED store
         /\ IF game_id \notin GameIds
              THEN /\ exc' = "KeyError"
                   /\ last' = Last("uninstall", game_id, "raise", 0)
                   /\ UNCHANGED notification
              ELSE /\ notification' = show_notification(
                         Msg("{name} removed!", games[game_id].name, 0), "success")
                   /\ last' = Last("uninstall", game_id, "True", 0)
                   /\ UNCHANGED exc
     ELSE
       /\ last' = Last("uninstall", game_id, "False", 0)
       /\ UNCHANGED <<store, installed, notification, exc>>

\* uninstall_game reporting an absent id the way install_game reports
uninstall_game_notifying(game_id) ==
  /\ exc = "none"
  /\ LET m == Contains(installed, game_id) IN
     IF m = "raise" THEN Raise("TypeError", "uninstall", game_id)
     ELSE IF m = "True" THEN
       IF installed.t # "list" THEN Raise("AttributeError", "uninstall", game_id)
       ELSE
         /\ installed' = PyList(RemoveFirst(installed.v, game_id))
         /\ store' = save_installed(installed')
         /\ IF game_id \notin GameIds
              THEN /\ exc' = "KeyError"
                   /\ last' = Last("uninstall", game_id, "raise", 0)
                   /\ UNCHANGED notification
              ELSE /\ notification' = show_notification(
                         Msg("{name} removed!", games[game_id].name, 0), "success")
                   /\ last' = Last("uninstall", game_id, "True", 0)
                   /\ UNCHANGED exc
     ELSE
       /\ notification' = show_notification(Msg("Game not installed!", "", 0), "warning")
       /\ last' = Last("uninstall", game_id, "False", 0)
       /\ UNCHANGED <<store, installed, exc>>

\* GameLauncher.uninstall_game
uninstall_game(game_id) ==
  /\ exc = "none"
  /\ LET m == Contains(installed, game_id) IN
     IF m = "raise" THEN Raise("TypeError", "uninstall", game_id)
     ELSE IF m = "True" THEN
       IF installed.t # "list" THEN Raise("AttributeError", "uninstall", game_id)
       ELSE
         /\ installed' = PyList(RemoveFirst(installed.v, game_id))
         /\ store' = save_installed(installed')
         /\ IF game_id \notin GameIds
              THEN /\ exc' = "KeyError"
                   /\ last' = Last("uninstall", game_id, "raise", 0)
                   /\ UNCHANGED notification
              ELSE /\ notification' = show_notification(
                         Msg("{name} removed!", games[game_id].name, 0), "success")
                   /\ last' = Last("uninstall", game_id, "True", 0)
                   /\ UNCHANGED exc
     ELSE
       /\ last' = Last("uninstall", game_id, "False", 0)
       /\ UNCHANGED <<store, installed, notification, exc>>

\* Menu.draw_header: the gauge shows get_used_space()
draw_header ==
  /\ exc = "none"
  /\ LET used == get_used_space(installed) IN
     IF used.exc # "none" THEN Raise(used.exc, "used", "")
     ELSE /\ last' = Last("used", "", "value", used.val)
          /\ UNCHANGED <<store, installed, notification, exc>>

\* Tick clearing only below zero
TickLate(n) ==
  IF n = None THEN None
  ELSE IF n.timer - 1 < 0 THEN None
  ELSE [n EXCEPT !.timer = n.timer - 1]

\* The notification after one frame of Menu.draw_notification
Tick(n) ==
  IF n = None THEN None
  ELSE IF n.timer - 1 <= 0 THEN None
  ELSE [n EXCEPT !.timer = n.timer - 1]

\* Menu.draw_notification
draw_notification ==
  /\ exc = "none"
  /\ notification' = Tick(notification)
  /\ last' = Last("tick", "", "None", 0)
  /\ UNCHANGED <<store, installed, exc>>

\* ------------------------------------------------------------ start-up
\* GameLauncher.__init__ on the store st
Constructed(st) ==
  LET r == load_installed(st) IN
  /\ installed = r.val
  /\ notification = None
  /\ exc = r.exc
  /\ last = Last("load", "", IF r.exc = "none" THEN "value" ELSE "raise", 0)

\* The process is ended (pygame.QUIT, or an uncaught exception) and the
\* launcher is started again on the store it left behind.
Launch ==
  LET r == load_installed(store) IN
  /\ installed' = r.val
  /\ notification' = None
  /\ exc' = r.exc
  /\ last' = Last("load", "", IF r.exc = "none" THEN "value" ELSE "raise", 0)
  /\ UNCHANGED store

\* ------------------------------------------------------------ stores
FileElems == GameIds \cup OrphanIds \cup NumToks

SeqsUpTo(S, n) == UNION {[1..k -> S] : k \in 0..n}

\* What installed.json may hold when the launcher starts: no file, bytes
\* that are not text, text that is not JSON, a JSON scalar, or an array.
InitialStores ==
  {[exists |-> FALSE, text |-> <<>>]}
  \cup {[exists |-> TRUE, text |-> t] :
          t \in {<<>>, <<BadByte>>, <<"[", "a">>, <<"[", "a", ",", "]">>, <<"7">>, <<"a">>}}
  \cup {[exists |-> TRUE, text |-> json_dump(PyList(v))] : v \in SeqsUpTo(FileElems, MaxFileLen)}

Init == \E st \in InitialStores : store = st /\ Constructed(st)

Next ==
  \/ \E game_id \in ArgIds : install_game(game_id)
  \/ \E game_id \in ArgIds : uninstall_game(game_id)
  \/ draw_header
  \/ draw_notification
  \/ Launch

Spec == Init /\ [][Next]_vars

\* ------------------------------------------------------------ properties
\* Sum of the catalog sizes of the ids of v that the catalog has.
RECURSIVE Total(_)
Total(v) ==
  IF v = <<>> THEN 0
  ELSE (IF Head(v) \in GameIds THEN games[Head(v)].size ELSE 0) + Total(Tail(v))

Occurs(v, x) == \E i \in 1..Len(v) : v[i] = x

NoDup(v) == \A i, j \in 1..Len(v) : i # j => v[i] # v[j]

IsIdTok(tok) == tok \notin {"[", "]", ","}

\* The elements a store text lists, in order.
StoreElems(st) == SelectSeq(st.text, IsIdTok)

\* installed is a list of id strings, every one of them in the catalog
\* or an orphan
IsIdList(inst) == inst.t = "list" /\ \A i \in 1..Len(inst.v) : inst.v[i] \in StrToks

\* The store exists and holds a JSON array of identifier strings.
WellFormedStore(st) ==
  /\ st.exists
  /\ \E v \in SeqsUpTo(StrToks, MaxFileLen + Cardinality(GameIds)) :
       st.text = <<"[">> \o JoinElems(v) \o <<"]">>

Notified(n, type) == n # None /\ n.type = type /\ n.timer = TTL

\* C1: every install_game call that returns success leaves the sum of the
\* catalog sizes of the installed ids at most STORAGE_LIMIT, and no
\* install_game call writes to the store a library whose sum exceeds it.
C1_QuotaAfterInstall ==
  [][last'.op = "install" =>
       /\ last'.ret = "True" => Total(installed'.v) <= STORAGE_LIMIT
       /\ store' # store => Total(StoreElems(store')) <= STORAGE_LIMIT]_vars

C1_Witness ==
  /\ last.op = "install" /\ last.ret = "True"
  /\ Len(installed.v) = 2
  /\ Total(installed.v) = STORAGE_LIMIT

\* C2 (as claimed): get_used_space on a list of id strings returns the sum of
\* the sizes of the ids the catalog has, skipping the orphans, completes
\* normally and leaves installed as it was.
C2_OrphansSkipped ==
  [][(last'.op = "used" /\ IsIdList(installed)) =>
       /\ last'.ret = "value"
       /\ exc' = "none"
       /\ last'.val = Total(installed.v)
       /\ installed' = installed]_vars

\* C3: install_game(id) of a catalog id that is not installed, when
\* get_used_space() returns u and u + size(id) > STORAGE_LIMIT, returns
\* False, sets an error notification reporting size(id) - (STORAGE_LIMIT - u),
\* and leaves installed and the store unchanged.
C3_InsufficientSpace ==
  [][(/\ last'.op = "install"
      /\ last'.arg \in GameIds
      /\ installed.t # "int"
      /\ ~Occurs(installed.v, last'.arg)
      /\ \A i \in 1..Len(installed.v) : installed.v[i] \in GameIds
      /\ Total(installed.v) + games[last'.arg].size > STORAGE_LIMIT) =>
       /\ last'.ret = "False"
       /\ Notified(notification', "error")
       /\ notification'.message.n =
            games[last'.arg].size - (STORAGE_LIMIT - Total(installed.v))
       /\ installed' = installed
       /\ store' = store
       /\ exc' = "none"]_vars

C3_Witness ==
  /\ last.op = "install" /\ last.ret = "False"
  /\ Notified(notification, "error")
  /\ notification.message.n = 1
  /\ installed.v = <<"a">>

\* C4: between operations, loading the store yields exactly the in-memory
\* installed value, in the same order, and saving then loading it gives it
\* back (a launch whose load raised has no library in memory).
C4_StoreMirrorsInstalled ==
  ~(last.op = "load" /\ last.ret = "raise") =>
     /\ load_installed(store) = Ok(installed)
     /\ load_installed(save_installed(installed)) = Ok(installed)

C4_Witness ==
  /\ last.op = "uninstall" /\ last.ret = "True"
  /\ installed.v = <<"c", "a">>
  /\ store.text = <<"[", "c", ",", "a", "]">>

\* C5: no operation introduces a duplicate: when no id occurs twice in
\* installed before a step, none occurs twice after it.
C5_NoDuplicates ==
  [][NoDup(installed.v) => NoDup(installed'.v)]_vars

C5_Witness ==
  /\ last.op = "install" /\ last.ret = "False"
  /\ notification.type = "warning"
  /\ Len(installed.v) = 2 /\ NoDup(installed.v)

\* C6: uninstall_game(id) of an id that is not in installed returns False and
\* leaves installed, the store and the notification slot exactly as they
\* were; install_game sets a fresh notification whenever it returns.
C6_UninstallAbsentSilent ==
  [][/\ (last'.op = "uninstall" /\ installed.t # "int"
           /\ ~Occurs(installed.v, last'.arg)) =>
          /\ last'.ret = "False"
          /\ installed' = installed
          /\ store' = store
          /\ notification' = notification
          /\ exc' = "none"
     /\ (last'.op = "install" /\ last'.ret # "raise") =>
          /\ notification' # None
          /\ notification'.timer = TTL]_vars

C6_Witness ==
  /\ last.op = "uninstall" /\ last.ret = "False"
  /\ notification # None /\ notification.timer < TTL
  /\ installed.v # <<>>

\* C7: install_game(id) of an id already in installed returns False, sets a
\* warning notification and leaves installed and the store unchanged,
\* however much space is free.
C7_AlreadyInstalled ==
  [][(last'.op = "install" /\ installed.t # "int"
        /\ Occurs(installed.v, last'.arg)) =>
       /\ last'.ret = "False"
       /\ Notified(notification', "warning")
       /\ installed' = installed
       /\ store' = store
       /\ exc' = "none"]_vars

\* the id is installed already and a second copy would not fit
C7_Witness ==
  /\ last.op = "install" /\ last.ret = "False"
  /\ notification.type = "warning"
  /\ last.arg \in GameIds
  /\ IsIdList(installed)
  /\ Total(installed.v) + games[last.arg].size > STORAGE_LIMIT

\* C8: when install_game(id) returns True, get_used_space() after the call is
\* get_used_space() before it plus size(id), id is the last element of
\* installed and the rest is as before, and a success notification is set.
C8_InstallSuccess ==
  [][(last'.op = "install" /\ last'.ret = "True") =>
       /\ last'.arg \in GameIds
       /\ get_used_space(installed).exc = "none"
       /\ get_used_space(installed').exc = "none"
       /\ get_used_space(installed').val =
            get_used_space(installed).val + games[last'.arg].size
       /\ Len(installed'.v) = Len(installed.v) + 1
       /\ installed'.v[Len(installed'.v)] = last'.arg
       /\ SubSeq(installed'.v, 1, Len(installed.v)) = installed.v
       /\ Notified(notification', "success")
       /\ notification'.message.name = games[last'.arg].name]_vars

C8_Witness ==
  /\ last.op = "install" /\ last.ret = "True"
  /\ installed.v = <<"c", "b">>
  /\ Notified(notification, "success")

\* C9: a notification is set with timer TTL; each frame of draw_notification
\* that finds one with timer above 1 keeps its message and kind and lowers
\* the timer by exactly one, the frame that finds timer 1 clears it, and a
\* live notification always has a timer in 1..TTL.
C9_Countdown ==
  [][/\ notification' # None => notification'.timer \in 1..TTL
     /\ (last'.op \in {"install", "uninstall"} /\ notification' # notification) =>
          notification'.timer = TTL
     /\ (last'.op = "tick" /\ notification # None) =>
          IF notification.timer > 1
            THEN /\ notification'.message = notification.message
                 /\ notification'.type = notification.type
                 /\ notification'.timer = notification.timer - 1
            ELSE notification' = None]_vars

C9_Witness ==
  /\ last.op = "tick"
  /\ notification # None /\ notification.timer = 1

\* C10 (as claimed): load_installed never raises, yields the empty library
\* when the store is missing or is not a JSON array of identifier strings,
\* and always yields a list of id strings.
C10_LoadRecovers ==
  last.op = "load" =>
     /\ last.ret = "value"
     /\ exc = "none"
     /\ IsIdList(installed)
     /\ ~WellFormedStore(store) => installed = PyList(<<>>)

====
